---- MODULE Spec2Model ----
(***************************************************************************)
(* Judge scoring endpoints of the SCAR tournament judge portal.            *)
(*                                                                         *)
(* The repository holds three snapshots of server/index.js:                *)
(*   "index"    src/server/index.js    scores kept in the module-level map *)
(*                                     judgeScores, no storage helpers     *)
(*   "part_000" src/unnamed/part_000   storage helpers (PostgreSQL pool or *)
(*                                     in-memory fallback)                 *)
(*   "README"   src/README.md:214-1210 as part_000, with winner-takes-all  *)
(*                                     scores on a KO decision             *)
(* The variable build selects the snapshot, pool whether DATABASE_URL is   *)
(* configured. One match (one matchId) is modelled; the record of a match  *)
(* is never shared with another match.                                     *)
(*                                                                         *)
(* Specifications: Spec (submits and deletes), PortalSpec (all endpoints:  *)
(* submit, delete, status read, reopen), EditSpec (submits and deletes     *)
(* over longer runs), MalformedSpec (request bodies the judging form does  *)
(* not send), CalcSpec (calculateMatchResult on every record of three      *)
(* scorecards), FaultSpec (submits and deletes with a store write or an    *)
(* attachment call that can fail), SerialSpec (requests handled one after  *)
(* the other), TwinSpec (the in-memory and the database variant fed the    *)
(* same requests), DetailsSpec (the scoring endpoints with the details     *)
(* read), TotalsSpec (the totals of one scorecard in the judging form and  *)
(* in the server).                                                         *)
(***************************************************************************)
EXTENDS Integers, Sequences, FiniteSets

VARIABLES
    build,      \* which snapshot of server/index.js runs
    pool,       \* TRUE: PostgreSQL pool configured; FALSE: in-memory fallback
    store,      \* the stored record of the match (judgeScores[matchId] / judge_scores row)
    req,        \* per judge client: the request in flight (handler position and locals)
    resp,       \* per judge client: the response to its last completed request
    reports,    \* the report calls made upstream (PUT match), in order
    accepted,   \* the report calls the bracket host accepted, in order
    opsStarted, \* history: number of requests received so far
    opsLimit,   \* the number of requests the clients make in this run
    anyDelete,  \* history: a delete request removed a scorecard
    anyFailure, \* history: an upstream report call failed
    latest,     \* history: per judge, the scorecard of its last submit answered
                \* with success, none after a delete answered with success
    statusOut,  \* the last answer of GET /api/matches/:matchId/scores
    reopen,     \* the outcome of the last reopen request: "none", "ok", "error"
    attachments,\* the judge_scores attachments saved upstream for the match, in order
    details,    \* the handler of GET .../scores/details and its last answer
    twin,       \* TwinSpec: the in-memory and the database variant side by side
    sheet,      \* TotalsSpec: the event's criteria and a judge's point split
    totals,     \* TotalsSpec: the totals the client shows and the server adds up
    calcIn,     \* CalcSpec: the record handed to calculateMatchResult
    calcOut     \* CalcSpec: what calculateMatchResult returned

vars == <<build, pool, store, req, resp, reports, opsStarted, opsLimit, anyDelete, anyFailure,
          latest, statusOut, reopen, accepted, attachments, details, twin, sheet, totals,
          calcIn, calcOut>>

-----------------------------------------------------------------------------
(* Bounds and program constants *)

\* The number of requests a behaviour of Spec, PortalSpec or MalformedSpec
\* receives.
MaxOps == 4

\* The number of requests a behaviour of EditSpec receives.
MaxEdits == 5

\* "const judgeScoreB = 11 - judgeScoreA"
PointBudget == 11

\* "if (judgeCount >= 3 && !matchScores.finalized)"
JudgesRequired == 3

\* README snapshot: "const maxPointsPerJudge = 11; // Default total points"
maxPointsPerJudge == 11

Builds == {"index", "part_000", "README"}

\* The three judge roles of the client (App.jsx: judge_1, judge_2, judge_3); each
\* client has at most one request in flight (the submit button is disabled
\* while isSubmitting).
JudgeIds == {"judge_1", "judge_2", "judge_3"}

\* The two participant ids of the match as the bracket host issued them
\* (match.player1_id, match.player2_id).
Competitors == <<101, 102>>
CompetitorA == Competitors[1]
CompetitorB == Competitors[2]
\* An id that is no participant of the match.
OtherIds == {999}

-----------------------------------------------------------------------------
(* Data *)

\* JS null / undefined for an id is modelled as 0 (both are falsy, as 0 is).
NoId == 0

\* scores is <<>> for null, else <<[aggression, damage, control]>> (A's shares).
PointSplit(a, d, c) ==
    [scores |-> <<[aggression |-> a, damage |-> d, control |-> c]>>,
     isKO |-> FALSE, koWinnerId |-> NoId]

Knockout(w) == [scores |-> <<>>, isKO |-> TRUE, koWinnerId |-> w]

\* No scorecard: an entry judges does not hold, a request body with none.
NoCard == [scores |-> <<>>, isKO |-> FALSE, koWinnerId |-> NoId]

NoResult ==
    [present |-> FALSE, winnerId |-> NoId, winMethod |-> "none",
     scoreA |-> 0, scoreB |-> 0, koVotes |-> 0]

EmptyJudges == [j \in {} |-> Knockout(NoId)]

\* "no row / no key": getJudgeScoresFromStorage returns null.
NoRecord ==
    [exists |-> FALSE, competitorAId |-> NoId, competitorBId |-> NoId,
     judges |-> EmptyJudges, finalized |-> FALSE, result |-> NoResult]

\* The record a submit creates when none is stored.
NewRecord(a, b) ==
    [exists |-> TRUE, competitorAId |-> a, competitorBId |-> b,
     judges |-> EmptyJudges, finalized |-> FALSE, result |-> NoResult]

\* Mutant of PutJudge: a judge's first scorecard stays when the judge submits
\* again.
PutJudgeKeepsFirst(judges, j, card) ==
    [k \in (DOMAIN judges) \cup {j} |-> IF k \in DOMAIN judges THEN judges[k] ELSE card]

\* matchScores.judges[judgeId] = {...}
PutJudge(judges, j, card) ==
    [k \in (DOMAIN judges) \cup {j} |-> IF k = j THEN card ELSE judges[k]]

\* Mutant of DropJudge: the entry stays.
DropJudgeKeeps(judges, j) == judges

\* delete scores.judges[judgeId]
DropJudge(judges, j) == [k \in (DOMAIN judges) \ {j} |-> judges[k]]

-----------------------------------------------------------------------------
(* calculateMatchResult *)

Digits == <<"0", "1", "2", "3", "4", "5", "6", "7", "8", "9">>

\* The property key an id becomes in koVotes[judge.koWinnerId]: its decimal
\* string, here the sequence of its digit characters.
RECURSIVE KeyOf(_)
KeyOf(n) ==
    IF n < 10 THEN <<Digits[n + 1]>>
    ELSE Append(KeyOf(n \div 10), Digits[(n % 10) + 1])

DigitValue(ch) == (CHOOSE i \in 1..10 : Digits[i] = ch) - 1

\* parseInt(winnerId) of a decimal key.
RECURSIVE parseInt(_)
parseInt(s) ==
    IF Len(s) = 0 THEN 0
    ELSE 10 * parseInt(SubSeq(s, 1, Len(s) - 1)) + DigitValue(s[Len(s)])

\* "if (judge.isKO && judge.koWinnerId)"
CastsKoVote(card) == card.isKO /\ card.koWinnerId # NoId

\* The koVotes object after the first forEach: key -> number of votes.
koVotesOf(judges) ==
    LET voters == {j \in DOMAIN judges : CastsKoVote(judges[j])}
        keys == {KeyOf(judges[j].koWinnerId) : j \in voters}
    IN [k \in keys |->
          Cardinality({j \in voters : KeyOf(judges[j].koWinnerId) = k})]

\* Mutant of KoMajority: a KO needs every judge's vote.
KoMajorityUnanimous == JudgesRequired

\* "if (votes >= 2)"
KoMajority == 2

\* Object.entries(koVotes) lists integer keys in ascending numeric order; the
\* loop returns at the first key with votes >= 2.
FirstKoMajorityKey(votes) ==
    LET hit == {k \in DOMAIN votes : votes[k] >= KoMajority}
    IN IF hit = {} THEN <<>>
       ELSE CHOOSE k \in hit : \A o \in hit : parseInt(k) <= parseInt(o)

\* scoreA / scoreB of a KO result. index and part_000: "scoreA: 0, scoreB: 0";
\* README: "scoreA: isWinnerA ? totalMaxPoints : 0".
KoScores(b, winnerId, competitorAId) ==
    IF b = "README"
    THEN LET totalMaxPoints == maxPointsPerJudge * 3
             isWinnerA == winnerId = competitorAId
         IN [a |-> IF isWinnerA THEN totalMaxPoints ELSE 0,
             b |-> IF isWinnerA THEN 0 ELSE totalMaxPoints]
    ELSE [a |-> 0, b |-> 0]

\* "judge.scores.aggression + judge.scores.damage + judge.scores.control"
judgeScoreA(card) ==
    card.scores[1].aggression + card.scores[1].damage + card.scores[1].control

\* Mutant of judgeScoreB: every scorecard is worth the whole match's points.
judgeScoreBOfMatch(card) == PointBudget * JudgesRequired - judgeScoreA(card)

\* "const judgeScoreB = 11 - judgeScoreA"
judgeScoreB(card) == PointBudget - judgeScoreA(card)

\* "if (judge.scores)"
HasScores(card) == Len(card.scores) > 0

\* The second forEach: totalA and totalB accumulated over the scorecards S,
\* those without scores skipped.
RECURSIVE PointTotalsOver(_, _)
PointTotalsOver(judges, S) ==
    IF S = {} THEN [a |-> 0, b |-> 0]
    ELSE LET j == CHOOSE x \in S : TRUE
             rest == PointTotalsOver(judges, S \ {j})
         IN IF HasScores(judges[j])
            THEN [a |-> rest.a + judgeScoreA(judges[j]),
                  b |-> rest.b + judgeScoreB(judges[j])]
            ELSE rest

PointTotals(judges) == PointTotalsOver(judges, DOMAIN judges)

\* "const winnerId = totalA > totalB ? matchData.competitorAId : matchData.competitorBId"
PointsWinner(totalA, totalB, competitorAId, competitorBId) ==
    IF totalA > totalB THEN competitorAId ELSE competitorBId

calculateMatchResult(b, matchData) ==
    LET votes == koVotesOf(matchData.judges)
        key == FirstKoMajorityKey(votes)
    IN IF key # <<>>
       THEN LET ko == KoScores(b, parseInt(key), matchData.competitorAId)
            IN [present |-> TRUE, winnerId |-> parseInt(key), winMethod |-> "ko",
                scoreA |-> ko.a, scoreB |-> ko.b, koVotes |-> votes[key]]
       ELSE LET t == PointTotals(matchData.judges)
            IN [present |-> TRUE,
                winnerId |-> PointsWinner(t.a, t.b, matchData.competitorAId,
                                          matchData.competitorBId),
                winMethod |-> "points", scoreA |-> t.a, scoreB |-> t.b,
                koVotes |-> 0]

-----------------------------------------------------------------------------
(* The judge's scoring form and the totals *)

\* The criteria an event is configured with (the points of aggression, damage
\* and control): DEFAULT_SCORING_CRITERIA, and an event whose damage criterion
\* was raised to 7 points on the admin dashboard.
DefaultCriteria == [aggression |-> 3, damage |-> 5, control |-> 3]

CriteriaChoices == {DefaultCriteria, [DefaultCriteria EXCEPT !.damage = 7]}

\* "const totalMaxPoints = criteria.reduce((sum, c) => sum + c.points, 0)"
totalMaxPoints(criteria) == criteria.aggression + criteria.damage + criteria.control

\* The forms a judge can fill in: each slider gives competitor A between 0 and
\* the criterion's points.
Sheets ==
    {[criteria |-> c, scores |-> sc] :
        c \in CriteriaChoices,
        sc \in [aggression : 0..3, damage : 0..7, control : 0..3]}

FilledSheets ==
    {sh \in Sheets : /\ sh.scores.aggression <= sh.criteria.aggression
                     /\ sh.scores.damage <= sh.criteria.damage
                     /\ sh.scores.control <= sh.criteria.control}

NoSheet == [criteria |-> DefaultCriteria,
            scores |-> [aggression |-> 0, damage |-> 0, control |-> 0]]

NoTotals == [present |-> FALSE, clientA |-> 0, clientB |-> 0, serverA |-> 0, serverB |-> 0]

\* "const totalA = criteria.reduce((sum, c) => sum + (scores[c.id] || 0), 0)"
totalA(sh) == sh.scores.aggression + sh.scores.damage + sh.scores.control

\* "const totalB = totalMaxPoints - totalA"
totalB(sh) == totalMaxPoints(sh.criteria) - totalA(sh)

-----------------------------------------------------------------------------
(* Requests and responses *)

\* Handler positions: "idle" (no request in flight), "report" (awaiting
\* reportToChallonge), "save_final" / "save_pending" / "save_delete"
\* (awaiting saveJudgeScoresToStorage on the pool), "attach" (awaiting
\* saveJudgeBreakdownToChallonge).
\* ms is the handler's local matchScores / scores (a copy of the row on the
\* pool), judgeCount and result its locals of those names; reported records
\* that the handler called reportToChallonge; card is the scorecard of the
\* request body.
IdleReq ==
    [pc |-> "idle", kind |-> "none", card |-> NoCard, ms |-> NoRecord,
     judgeCount |-> 0, result |-> NoResult, reported |-> FALSE]

\* The response a client last received: kind names the request it answers,
\* reported whether that request's handler called reportToChallonge.
NoResp ==
    [kind |-> "none", status |-> 0, success |-> FALSE, finalized |-> FALSE,
     judgeCount |-> 0, result |-> NoResult, reported |-> FALSE]

\* res.json({success: true, judgeCount, finalized: true, result, ...})
FinalizedResp(judgeCount, result) ==
    [kind |-> "submit", status |-> 200, success |-> TRUE, finalized |-> TRUE,
     judgeCount |-> judgeCount, result |-> result, reported |-> TRUE]

\* res.json({success: true, judgeCount, finalized: false, message})
WaitingResp(judgeCount) ==
    [kind |-> "submit", status |-> 200, success |-> TRUE, finalized |-> FALSE,
     judgeCount |-> judgeCount, result |-> NoResult, reported |-> FALSE]

\* res.json({success: true, message: 'Score deleted, you can resubmit'})
DeletedResp ==
    [kind |-> "delete", status |-> 200, success |-> TRUE, finalized |-> FALSE,
     judgeCount |-> 0, result |-> NoResult, reported |-> FALSE]

\* res.status(code).json({error})
ErrorResp(kind, code, reported) ==
    [kind |-> kind, status |-> code, success |-> FALSE, finalized |-> FALSE,
     judgeCount |-> 0, result |-> NoResult, reported |-> reported]

InFlight(j) == req[j].pc # "idle"

\* The in-memory paths mutate the stored object itself: judgeScores[matchId] in
\* index.js, the object getJudgeScoresFromStorage returns from memoryStorage in
\* the later snapshots.
InMemory == build = "index" \/ ~pool

-----------------------------------------------------------------------------
(* POST /api/matches/:matchId/scores *)

\* The scorecards a judge client submits in Spec: two point splits (A 7 - B 4
\* and A 4 - B 7) and a KO declaration.
SubmitCards == {PointSplit(2, 3, 2), PointSplit(1, 2, 1), Knockout(CompetitorA)}

\* "let matchScores = await getJudgeScoresFromStorage(matchId); if (!matchScores)
\* matchScores = {...}" then "matchScores.judges[judgeId] = {...}".
WithScorecard(rec, j, card) ==
    LET base == IF rec.exists THEN rec ELSE NewRecord(CompetitorA, CompetitorB)
    IN [base EXCEPT !.judges = PutJudge(@, j, card)]

\* "const judgeCount = Object.keys(matchScores.judges).length"
JudgeCount(rec) == Cardinality(DOMAIN rec.judges)

\* Mutant of ShouldFinalize: the match is finalized one scorecard early.
ShouldFinalizeAtTwo(rec) == JudgeCount(rec) >= JudgesRequired - 1 /\ ~rec.finalized

\* "if (judgeCount >= 3 && !matchScores.finalized)"
ShouldFinalize(rec) == JudgeCount(rec) >= JudgesRequired /\ ~rec.finalized

\* The arguments of reportToChallonge: winner_id and scores_csv "A-B".
ReportCall(result) ==
    [winnerId |-> result.winnerId, scoreA |-> result.scoreA, scoreB |-> result.scoreB]

\* Mutant of AtReportCall: the record is marked before the report is made.
MarkedAtReportCall(ms, result) == [ms EXCEPT !.finalized = TRUE, !.result = result]

\* The record while "await reportToChallonge(...)" is pending: "matchScores.
\* finalized = true; matchScores.result = result" come after the call returns.
AtReportCall(ms, result) == ms

\* The request arrives; the handler runs to its first await that another
\* request can interleave with. In memory the read, the upsert of the judge's
\* entry and, below three entries, the save are one step; on the pool the
\* SELECT is the step, and the write is SaveReturn.
Submit(j, card) ==
    /\ ~InFlight(j)
    /\ opsStarted < opsLimit
    /\ opsStarted' = opsStarted + 1
    /\ LET ms == WithScorecard(store, j, card)
           count == JudgeCount(ms)
           started == [IdleReq EXCEPT !.kind = "submit", !.card = card,
                                      !.judgeCount = count]
       IN IF ShouldFinalize(ms)
          THEN LET result == calculateMatchResult(build, ms)
               IN /\ reports' = Append(reports, ReportCall(result))
                  /\ req' = [req EXCEPT ![j] =
                               [started EXCEPT !.pc = "report", !.result = result,
                                               !.reported = TRUE,
                                               !.ms = IF InMemory THEN NoRecord
                                                      ELSE AtReportCall(ms, result)]]
                  /\ store' = IF InMemory THEN AtReportCall(ms, result) ELSE store
                  /\ resp' = [resp EXCEPT ![j] = NoResp]
                  /\ latest' = latest
          ELSE /\ reports' = reports
               /\ IF InMemory
                  THEN /\ store' = ms
                       /\ req' = req
                       /\ resp' = [resp EXCEPT ![j] = WaitingResp(count)]
                       /\ latest' = [latest EXCEPT ![j] = card]
                  ELSE /\ store' = store
                       /\ req' = [req EXCEPT ![j] =
                                    [started EXCEPT !.pc = "save_pending", !.ms = ms]]
                       /\ resp' = [resp EXCEPT ![j] = NoResp]
                       /\ latest' = latest
    /\ UNCHANGED <<build, pool, opsLimit, anyDelete, anyFailure, statusOut, reopen, accepted, attachments, details, twin,
                   sheet, totals, calcIn, calcOut>>

\* reportToChallonge throws: "catch (error) { res.status(500)... }".
ReportFails(j) ==
    /\ req[j].pc = "report"
    /\ anyFailure' = TRUE
    /\ req' = [req EXCEPT ![j] = IdleReq]
    /\ resp' = [resp EXCEPT ![j] = ErrorResp("submit", 500, TRUE)]
    /\ UNCHANGED <<build, pool, opsLimit, store, reports, opsStarted, anyDelete, latest,
                   statusOut, reopen, accepted, attachments, details, twin,
                   sheet, totals, calcIn, calcOut>>

\* reportToChallonge returns: "matchScores.finalized = true; matchScores.result
\* = result". index.js responds at once; in memory the later snapshots save the
\* stored object itself and go on to the attachment; on the pool the local copy
\* is marked and the save is awaited.
ReportReturns(j) ==
    /\ req[j].pc = "report"
    /\ accepted' = Append(accepted, ReportCall(req[j].result))
    /\ IF InMemory
       THEN /\ store' = [store EXCEPT !.finalized = TRUE, !.result = req[j].result]
            /\ IF build = "index"
               THEN /\ req' = [req EXCEPT ![j] = IdleReq]
                    /\ resp' = [resp EXCEPT ![j] =
                                 FinalizedResp(req[j].judgeCount, req[j].result)]
                    /\ latest' = [latest EXCEPT ![j] = req[j].card]
               ELSE /\ req' = [req EXCEPT ![j].pc = "attach", ![j].ms = store']
                    /\ resp' = resp
                    /\ latest' = latest
       ELSE /\ store' = store
            /\ req' = [req EXCEPT ![j].pc = "save_final",
                                  ![j].ms = [@ EXCEPT !.finalized = TRUE,
                                                      !.result = req[j].result]]
            /\ resp' = resp
            /\ latest' = latest
    /\ UNCHANGED <<build, pool, opsLimit, reports, opsStarted, anyDelete, anyFailure, statusOut, reopen, attachments, details, twin,
                   sheet, totals, calcIn, calcOut>>

\* saveJudgeScoresToStorage on the pool: the upsert writes the whole record.
SaveReturns(j) ==
    /\ req[j].pc \in {"save_final", "save_pending"}
    /\ store' = req[j].ms
    /\ IF req[j].pc = "save_final"
       THEN /\ req' = [req EXCEPT ![j].pc = "attach"]
            /\ resp' = resp
            /\ latest' = latest
       ELSE /\ req' = [req EXCEPT ![j] = IdleReq]
            /\ resp' = [resp EXCEPT ![j] = WaitingResp(req[j].judgeCount)]
            /\ latest' = [latest EXCEPT ![j] = req[j].card]
    /\ UNCHANGED <<build, pool, opsLimit, reports, opsStarted, anyDelete, anyFailure, statusOut, reopen, accepted, attachments, details, twin,
                   sheet, totals, calcIn, calcOut>>

\* saveJudgeScoresToStorage on the pool throws (the upsert is not caught in the
\* helper): the handler's catch answers 500. The record stays as it was.
SaveFails(j) ==
    /\ req[j].pc \in {"save_final", "save_pending"}
    /\ req' = [req EXCEPT ![j] = IdleReq]
    /\ resp' = [resp EXCEPT ![j] = ErrorResp("submit", 500, req[j].reported)]
    /\ UNCHANGED <<build, pool, opsLimit, store, reports, opsStarted, anyDelete,
                   anyFailure, latest, statusOut, reopen, accepted, attachments,
                   details, twin, sheet, totals, calcIn, calcOut>>

\* The description of the attachment: "JSON.stringify({type: 'judge_scores',
\* judges, competitorAId, competitorBId, result, savedAt})" of the record the
\* handler holds when it calls saveJudgeBreakdownToChallonge.
AttachmentOf(judgeData) ==
    [judges |-> judgeData.judges, competitorAId |-> judgeData.competitorAId,
     competitorBId |-> judgeData.competitorBId, result |-> judgeData.result]

\* Mutant of AttachFailed: the failure of the attachment call reaches the
\* handler's catch.
AttachFailedThrows(judgeCount, result) == ErrorResp("submit", 500, TRUE)

\* "catch (error) { console.error(...); // Don't throw - this is not critical
\* return null }", then the handler's res.json({success: true, judgeCount,
\* finalized: true, result, challongeResponse}).
AttachFailed(judgeCount, result) == FinalizedResp(judgeCount, result)

\* saveJudgeBreakdownToChallonge returns after the host stored the attachment,
\* then the response.
AttachReturns(j) ==
    /\ req[j].pc = "attach"
    /\ attachments' = Append(attachments, AttachmentOf(req[j].ms))
    /\ req' = [req EXCEPT ![j] = IdleReq]
    /\ resp' = [resp EXCEPT ![j] = FinalizedResp(req[j].judgeCount, req[j].result)]
    /\ latest' = [latest EXCEPT ![j] = req[j].card]
    /\ UNCHANGED <<build, pool, opsLimit, store, reports, opsStarted, anyDelete, anyFailure,
                   statusOut, reopen, accepted, details, twin,
                   sheet, totals, calcIn, calcOut>>

\* The attachment call fails inside saveJudgeBreakdownToChallonge, which
\* returns null; then the response.
AttachFails(j) ==
    /\ req[j].pc = "attach"
    /\ req' = [req EXCEPT ![j] = IdleReq]
    /\ resp' = [resp EXCEPT ![j] = AttachFailed(req[j].judgeCount, req[j].result)]
    /\ latest' = [latest EXCEPT ![j] = IF resp'[j].success THEN req[j].card ELSE latest[j]]
    /\ UNCHANGED <<build, pool, opsLimit, store, reports, opsStarted, anyDelete, anyFailure,
                   statusOut, reopen, accepted, attachments, details, twin,
                   sheet, totals, calcIn, calcOut>>

-----------------------------------------------------------------------------
(* DELETE /api/matches/:matchId/scores/:judgeId *)

\* A judge client deletes its own scorecard (handleEdit passes currentUser.id).
\* "if (scores?.finalized) return 400; if (scores?.judges?.[judgeId]) {delete;
\* save; 200} else 404". In memory this is one step; on the pool the SELECT is
\* the step and the write is DeleteSaveReturns.
\* Mutant of AlreadyFinalized: the delete handler does not look at the flag.
NeverFinalized(rec) == FALSE

\* "if (scores?.finalized) return res.status(400).json({error: 'Match already
\* finalized'})"
AlreadyFinalized(rec) == rec.finalized

\* Mutant of HasEntry: the delete handler answers success whether or not the
\* judge has an entry.
HasEntryAlways(rec, j) == TRUE

\* "if (scores?.judges?.[judgeId])"
HasEntry(rec, j) == j \in DOMAIN rec.judges

Delete(j) ==
    /\ ~InFlight(j)
    /\ opsStarted < opsLimit
    /\ opsStarted' = opsStarted + 1
    /\ LET started == [IdleReq EXCEPT !.kind = "delete"]
           removed == [store EXCEPT !.judges = DropJudge(@, j)]
       IN IF AlreadyFinalized(store)
          THEN /\ req' = req
               /\ resp' = [resp EXCEPT ![j] = ErrorResp("delete", 400, FALSE)]
               /\ UNCHANGED <<store, anyDelete, latest>>
          ELSE IF HasEntry(store, j)
          THEN IF InMemory
               THEN /\ store' = removed
                    /\ anyDelete' = TRUE
                    /\ req' = req
                    /\ resp' = [resp EXCEPT ![j] = DeletedResp]
                    /\ latest' = [latest EXCEPT ![j] = NoCard]
               ELSE /\ req' = [req EXCEPT ![j] =
                                 [started EXCEPT !.pc = "save_delete", !.ms = removed]]
                    /\ resp' = [resp EXCEPT ![j] = NoResp]
                    /\ UNCHANGED <<store, anyDelete, latest>>
          ELSE /\ req' = req
               /\ resp' = [resp EXCEPT ![j] = ErrorResp("delete", 404, FALSE)]
               /\ UNCHANGED <<store, anyDelete, latest>>
    /\ UNCHANGED <<build, pool, opsLimit, reports, anyFailure, statusOut, reopen, accepted, attachments, details, twin,
                   sheet, totals, calcIn, calcOut>>

\* saveJudgeScoresToStorage on the pool after the delete, then the response.
DeleteSaveReturns(j) ==
    /\ req[j].pc = "save_delete"
    /\ store' = req[j].ms
    /\ anyDelete' = TRUE
    /\ req' = [req EXCEPT ![j] = IdleReq]
    /\ resp' = [resp EXCEPT ![j] = DeletedResp]
    /\ latest' = [latest EXCEPT ![j] = NoCard]
    /\ UNCHANGED <<build, pool, opsLimit, reports, opsStarted, anyFailure, statusOut, reopen, accepted, attachments, details, twin,
                   sheet, totals, calcIn, calcOut>>

\* saveJudgeScoresToStorage on the pool throws after the delete: the handler's
\* catch answers 500 and the entry stays in the stored record.
DeleteSaveFails(j) ==
    /\ req[j].pc = "save_delete"
    /\ req' = [req EXCEPT ![j] = IdleReq]
    /\ resp' = [resp EXCEPT ![j] = ErrorResp("delete", 500, FALSE)]
    /\ UNCHANGED <<build, pool, opsLimit, store, reports, opsStarted, anyDelete,
                   anyFailure, latest, statusOut, reopen, accepted, attachments,
                   details, twin, sheet, totals, calcIn, calcOut>>

-----------------------------------------------------------------------------
(* GET /api/matches/:matchId/scores *)

NoStatus ==
    [present |-> FALSE, judgeCount |-> 0, finalized |-> FALSE, result |-> NoResult]

\* Mutant of StatusOf: finalized is told from the number of entries.
StatusOfByCount(rec) ==
    [present |-> TRUE, judgeCount |-> Cardinality(DOMAIN rec.judges),
     finalized |-> Cardinality(DOMAIN rec.judges) >= JudgesRequired,
     result |-> rec.result]

\* "const scores = await getJudgeScoresFromStorage(matchId) || {judges: {}};
\* res.json({matchId, judgeCount: Object.keys(scores.judges || {}).length,
\* finalized: scores.finalized || false, result: scores.result || null})"
StatusOf(rec) ==
    LET scores == IF rec.exists
                  THEN rec
                  ELSE [judges |-> EmptyJudges, finalized |-> FALSE, result |-> NoResult]
    IN [present |-> TRUE, judgeCount |-> Cardinality(DOMAIN scores.judges),
        finalized |-> scores.finalized, result |-> scores.result]

\* Any client asks for the status; the read and the answer are one step.
GetStatus ==
    /\ opsStarted < opsLimit
    /\ opsStarted' = opsStarted + 1
    /\ statusOut' = StatusOf(store)
    /\ UNCHANGED <<build, pool, opsLimit, store, req, resp, reports, anyDelete,
                   anyFailure, latest, reopen, accepted, attachments, details, twin,
                   sheet, totals, calcIn, calcOut>>

-----------------------------------------------------------------------------
(* POST /api/tournaments/:tournamentId/matches/:matchId/reopen *)

\* "const data = await challongeRequest(`/tournaments/${tournamentId}/matches/
\* ${matchId}/reopen.json`, 'POST'); res.json(data)", or the catch's 500 when
\* the call throws. The handler touches nothing but the upstream match.
Reopen(ok) ==
    /\ opsStarted < opsLimit
    /\ opsStarted' = opsStarted + 1
    /\ reopen' = IF ok THEN "ok" ELSE "error"
    /\ UNCHANGED <<build, pool, opsLimit, store, req, resp, reports, anyDelete, anyFailure,
                   latest, statusOut, accepted, attachments, details, twin,
                   sheet, totals, calcIn, calcOut>>

-----------------------------------------------------------------------------
(* GET /api/matches/:matchId/scores/details *)

NoDetails ==
    [present |-> FALSE, status |-> 0, judges |-> EmptyJudges, judgeCount |-> 0,
     finalized |-> FALSE, result |-> NoResult]

\* The handler's position ("idle", "fetch": awaiting
\* getJudgeBreakdownFromChallonge, "save": awaiting saveJudgeScoresToStorage on
\* the pool), its local variable scores and the last answer.
IdleDetails == [pc |-> "idle", scores |-> NoRecord, out |-> NoDetails]

\* "scores = scores || {judges: {}}; res.json({matchId, competitorAId,
\* competitorBId, judges: scores.judges || {}, judgeCount:
\* Object.keys(scores.judges || {}).length, finalized: scores.finalized ||
\* false, result: scores.result || null})"
DetailsOf(scores) ==
    [present |-> TRUE, status |-> 200, judges |-> scores.judges,
     judgeCount |-> Cardinality(DOMAIN scores.judges),
     finalized |-> scores.finalized, result |-> scores.result]

\* "if ((!scores || Object.keys(scores.judges || {}).length === 0) &&
\* tournamentId)"
NeedsBreakdown(scores, withTournament) ==
    (~scores.exists \/ Cardinality(DOMAIN scores.judges) = 0) /\ withTournament

\* "scores = {judges: challongeData.judges, competitorAId, competitorBId,
\* result: challongeData.result, finalized: true, tournamentId}": the record
\* built from the parsed description of the attachment.
CachedRecord(challongeData) ==
    [exists |-> TRUE, competitorAId |-> challongeData.competitorAId,
     competitorBId |-> challongeData.competitorBId,
     judges |-> challongeData.judges, finalized |-> TRUE,
     result |-> challongeData.result]

\* getJudgeBreakdownFromChallonge: the first attachment of the match whose
\* description parses to type 'judge_scores'; null (here <<>>) when there is
\* none or when the request fails.
getJudgeBreakdownFromChallonge(ok) ==
    IF ok /\ Len(attachments) > 0 THEN <<attachments[1]>> ELSE <<>>

\* A client polls the details (the judging form does so every 3 seconds, with
\* the tournamentId). The read of the store and, when nothing has to be
\* fetched, the answer are one step.
GetDetails(withTournament) ==
    /\ build # "index"
    /\ details.pc = "idle"
    /\ opsStarted < opsLimit
    /\ opsStarted' = opsStarted + 1
    /\ details' = IF NeedsBreakdown(store, withTournament)
                  THEN [details EXCEPT !.pc = "fetch", !.scores = store]
                  ELSE [details EXCEPT !.out = DetailsOf(store)]
    /\ UNCHANGED <<build, pool, store, req, resp, reports, opsLimit, anyDelete,
                   anyFailure, latest, statusOut, reopen, accepted, attachments,
                   twin, sheet, totals, calcIn, calcOut>>

\* getJudgeBreakdownFromChallonge returns. With a breakdown the record built
\* from it is saved (in memory at once, on the pool in DetailsSaveReturns);
\* without one the handler answers from what it read, which in memory is the
\* stored object itself when there was one.
DetailsFetched(ok) ==
    /\ details.pc = "fetch"
    /\ LET challongeData == getJudgeBreakdownFromChallonge(ok)
           unfilled == IF InMemory /\ details.scores.exists THEN store
                       ELSE details.scores
       IN IF challongeData # <<>>
          THEN IF InMemory
               THEN /\ store' = CachedRecord(challongeData[1])
                    /\ details' = [IdleDetails EXCEPT !.out = DetailsOf(store')]
               ELSE /\ store' = store
                    /\ details' = [details EXCEPT !.pc = "save",
                                       !.scores = CachedRecord(challongeData[1])]
          ELSE /\ store' = store
               /\ details' = [IdleDetails EXCEPT !.out = DetailsOf(unfilled)]
    /\ UNCHANGED <<build, pool, req, resp, reports, opsStarted, opsLimit, anyDelete,
                   anyFailure, latest, statusOut, reopen, accepted, attachments,
                   twin, sheet, totals, calcIn, calcOut>>

\* "await saveJudgeScoresToStorage(matchId, scores)" on the pool, then the
\* answer.
DetailsSaveReturns ==
    /\ details.pc = "save"
    /\ store' = details.scores
    /\ details' = [IdleDetails EXCEPT !.out = DetailsOf(details.scores)]
    /\ UNCHANGED <<build, pool, req, resp, reports, opsStarted, opsLimit, anyDelete,
                   anyFailure, latest, statusOut, reopen, accepted, attachments,
                   twin, sheet, totals, calcIn, calcOut>>

-----------------------------------------------------------------------------
(* Sequential runs of the two storage variants *)

NoTwin == [present |-> FALSE]

\* What a handler leaves behind: the stored record and the response.
Served(rec, out) == [store |-> rec, out |-> out]

\* POST /api/matches/:matchId/scores handled from request to response with no
\* other request in between, on the record rec: inMemory tells whether
\* getJudgeScoresFromStorage handed out the stored object itself (the
\* scorecard is then in the store before the report is awaited) or a copy of
\* the row (the store changes only in saveJudgeScoresToStorage); reportOk is
\* the outcome of reportToChallonge.
SubmitServed(inMemory, b, rec, j, card, reportOk) ==
    LET ms == WithScorecard(rec, j, card)
        count == JudgeCount(ms)
    IN IF ShouldFinalize(ms)
       THEN LET result == calculateMatchResult(b, ms)
            IN IF reportOk
               THEN Served([ms EXCEPT !.finalized = TRUE, !.result = result],
                           FinalizedResp(count, result))
               ELSE Served(IF inMemory THEN AtReportCall(ms, result) ELSE rec,
                           ErrorResp("submit", 500, TRUE))
       ELSE Served(ms, WaitingResp(count))

\* DELETE /api/matches/:matchId/scores/:judgeId handled in one piece.
DeleteServed(rec, j) ==
    IF AlreadyFinalized(rec) THEN Served(rec, ErrorResp("delete", 400, FALSE))
    ELSE IF HasEntry(rec, j)
         THEN Served([rec EXCEPT !.judges = DropJudge(@, j)], DeletedResp)
         ELSE Served(rec, ErrorResp("delete", 404, FALSE))

\* GET /api/matches/:matchId/scores handled in one piece.
StatusServed(rec) == Served(rec, StatusOf(rec))

TwinCards == {PointSplit(1, 2, 1), Knockout(CompetitorA)}

TwinInit ==
    /\ build \in {"part_000", "README"}
    /\ pool = FALSE
    /\ store = NoRecord
    /\ req = [j \in JudgeIds |-> IdleReq]
    /\ resp = [j \in JudgeIds |-> NoResp]
    /\ reports = <<>>
    /\ opsStarted = 0
    /\ opsLimit = MaxOps
    /\ anyDelete = FALSE
    /\ anyFailure = FALSE
    /\ latest = [j \in JudgeIds |-> NoCard]
    /\ statusOut = NoStatus
    /\ reopen = "none"
    /\ accepted = <<>>
    /\ attachments = <<>>
    /\ details = IdleDetails
    /\ twin = [present |-> TRUE, mem |-> Served(NoRecord, NoResp),
                                  db |-> Served(NoRecord, NoResp)]
    /\ sheet = NoSheet
    /\ totals = NoTotals
    /\ calcIn = NoRecord
    /\ calcOut = NoResult

\* The same request reaches both variants; the report has the same outcome
\* for both.
TwinSubmit(j, card, reportOk) ==
    /\ opsStarted < opsLimit
    /\ opsStarted' = opsStarted + 1
    /\ twin' = [twin EXCEPT
                  !.mem = SubmitServed(TRUE, build, twin.mem.store, j, card, reportOk),
                  !.db = SubmitServed(FALSE, build, twin.db.store, j, card, reportOk)]
    /\ UNCHANGED <<build, pool, store, req, resp, reports, opsLimit, anyDelete,
                   anyFailure, latest, statusOut, reopen, accepted, attachments,
                   details, sheet, totals, calcIn, calcOut>>

TwinDelete(j) ==
    /\ opsStarted < opsLimit
    /\ opsStarted' = opsStarted + 1
    /\ twin' = [twin EXCEPT !.mem = DeleteServed(twin.mem.store, j),
                            !.db = DeleteServed(twin.db.store, j)]
    /\ UNCHANGED <<build, pool, store, req, resp, reports, opsLimit, anyDelete,
                   anyFailure, latest, statusOut, reopen, accepted, attachments,
                   details, sheet, totals, calcIn, calcOut>>

TwinStatus ==
    /\ opsStarted < opsLimit
    /\ opsStarted' = opsStarted + 1
    /\ twin' = [twin EXCEPT !.mem = StatusServed(twin.mem.store),
                            !.db = StatusServed(twin.db.store)]
    /\ UNCHANGED <<build, pool, store, req, resp, reports, opsLimit, anyDelete,
                   anyFailure, latest, statusOut, reopen, accepted, attachments,
                   details, sheet, totals, calcIn, calcOut>>

TwinNext ==
    \/ \E j \in JudgeIds, card \in TwinCards, reportOk \in BOOLEAN :
          TwinSubmit(j, card, reportOk)
    \/ \E j \in JudgeIds : TwinDelete(j)
    \/ TwinStatus

TwinSpec == TwinInit /\ [][TwinNext]_vars

-----------------------------------------------------------------------------
(* The server *)

\* index.js has no pool; the later snapshots run with or without DATABASE_URL.
Configurations ==
    {c \in [build : Builds, pool : BOOLEAN] : c.build = "index" => ~c.pool}

Init ==
    /\ \E c \in Configurations : build = c.build /\ pool = c.pool
    /\ store = NoRecord
    /\ req = [j \in JudgeIds |-> IdleReq]
    /\ resp = [j \in JudgeIds |-> NoResp]
    /\ reports = <<>>
    /\ opsStarted = 0
    /\ opsLimit = MaxOps
    /\ anyDelete = FALSE
    /\ anyFailure = FALSE
    /\ latest = [j \in JudgeIds |-> NoCard]
    /\ statusOut = NoStatus
    /\ reopen = "none"
    /\ accepted = <<>>
    /\ attachments = <<>>
    /\ details = IdleDetails
    /\ twin = NoTwin
    /\ sheet = NoSheet
    /\ totals = NoTotals
    /\ calcIn = NoRecord
    /\ calcOut = NoResult

Next ==
    \/ \E j \in JudgeIds, card \in SubmitCards : Submit(j, card)
    \/ \E j \in JudgeIds : ReportFails(j)
    \/ \E j \in JudgeIds : ReportReturns(j)
    \/ \E j \in JudgeIds : SaveReturns(j)
    \/ \E j \in JudgeIds : AttachReturns(j)
    \/ \E j \in JudgeIds : Delete(j)
    \/ \E j \in JudgeIds : DeleteSaveReturns(j)

Spec == Init /\ [][Next]_vars

-----------------------------------------------------------------------------
(* The scoring endpoints together with the status read and the reopen *)

\* The scorecards submitted in PortalSpec: a point split and a KO declaration.
PortalCards == {PointSplit(1, 2, 1), Knockout(CompetitorA)}

PortalNext ==
    \/ \E j \in JudgeIds, card \in PortalCards : Submit(j, card)
    \/ \E j \in JudgeIds : ReportFails(j)
    \/ \E j \in JudgeIds : ReportReturns(j)
    \/ \E j \in JudgeIds : SaveReturns(j)
    \/ \E j \in JudgeIds : AttachReturns(j)
    \/ \E j \in JudgeIds : Delete(j)
    \/ \E j \in JudgeIds : DeleteSaveReturns(j)
    \/ GetStatus
    \/ \E ok \in BOOLEAN : Reopen(ok)

PortalSpec == Init /\ [][PortalNext]_vars

-----------------------------------------------------------------------------
(* Submits and deletes on their own, over longer runs *)

\* The scorecard submitted in EditSpec.
EditCards == {Knockout(CompetitorA)}

EditInit ==
    /\ \E c \in Configurations : build = c.build /\ pool = c.pool
    /\ store = NoRecord
    /\ req = [j \in JudgeIds |-> IdleReq]
    /\ resp = [j \in JudgeIds |-> NoResp]
    /\ reports = <<>>
    /\ opsStarted = 0
    /\ opsLimit = MaxEdits
    /\ anyDelete = FALSE
    /\ anyFailure = FALSE
    /\ latest = [j \in JudgeIds |-> NoCard]
    /\ statusOut = NoStatus
    /\ reopen = "none"
    /\ accepted = <<>>
    /\ attachments = <<>>
    /\ details = IdleDetails
    /\ twin = NoTwin
    /\ sheet = NoSheet
    /\ totals = NoTotals
    /\ calcIn = NoRecord
    /\ calcOut = NoResult

EditNext ==
    \/ \E j \in JudgeIds, card \in EditCards : Submit(j, card)
    \/ \E j \in JudgeIds : ReportFails(j)
    \/ \E j \in JudgeIds : ReportReturns(j)
    \/ \E j \in JudgeIds : SaveReturns(j)
    \/ \E j \in JudgeIds : AttachReturns(j)
    \/ \E j \in JudgeIds : Delete(j)
    \/ \E j \in JudgeIds : DeleteSaveReturns(j)

EditSpec == EditInit /\ [][EditNext]_vars

-----------------------------------------------------------------------------
(* One point-split scorecard: the totals of the client and of the server *)

\* "scores: isKO ? null : scores" in handleSubmit: the scorecard the form sends.
CardOf(sh) == PointSplit(sh.scores.aggression, sh.scores.damage, sh.scores.control)

TotalsInit ==
    /\ \E c \in Configurations : build = c.build /\ pool = c.pool
    /\ store = NoRecord
    /\ req = [j \in JudgeIds |-> IdleReq]
    /\ resp = [j \in JudgeIds |-> NoResp]
    /\ reports = <<>>
    /\ opsStarted = 0
    /\ opsLimit = MaxOps
    /\ anyDelete = FALSE
    /\ anyFailure = FALSE
    /\ latest = [j \in JudgeIds |-> NoCard]
    /\ statusOut = NoStatus
    /\ reopen = "none"
    /\ accepted = <<>>
    /\ attachments = <<>>
    /\ details = IdleDetails
    /\ twin = NoTwin
    /\ sheet \in FilledSheets
    /\ totals = NoTotals
    /\ calcIn = NoRecord
    /\ calcOut = NoResult

\* The form shows totalA and totalB; the server's second forEach adds
\* judgeScoreA and judgeScoreB of the submitted scorecard to its totals.
Tally ==
    /\ ~totals.present
    /\ totals' = [present |-> TRUE,
                  clientA |-> totalA(sheet), clientB |-> totalB(sheet),
                  serverA |-> judgeScoreA(CardOf(sheet)),
                  serverB |-> judgeScoreB(CardOf(sheet))]
    /\ UNCHANGED <<build, pool, store, req, resp, reports, opsStarted, opsLimit,
                   anyDelete, anyFailure, latest, statusOut, reopen, accepted,
                   attachments, details, twin, sheet, calcIn, calcOut>>

TotalsNext == Tally

TotalsSpec == TotalsInit /\ [][TotalsNext]_vars

-----------------------------------------------------------------------------
(* Submits and deletes with a store or an attachment call that can fail *)

FaultCards == {PointSplit(3, 3, 1), Knockout(CompetitorA)}

FaultNext ==
    \/ \E j \in JudgeIds, card \in FaultCards : Submit(j, card)
    \/ \E j \in JudgeIds : ReportFails(j)
    \/ \E j \in JudgeIds : ReportReturns(j)
    \/ \E j \in JudgeIds : SaveReturns(j)
    \/ \E j \in JudgeIds : SaveFails(j)
    \/ \E j \in JudgeIds : AttachReturns(j)
    \/ \E j \in JudgeIds : AttachFails(j)
    \/ \E j \in JudgeIds : Delete(j)
    \/ \E j \in JudgeIds : DeleteSaveReturns(j)
    \/ \E j \in JudgeIds : DeleteSaveFails(j)

FaultSpec == Init /\ [][FaultNext]_vars

-----------------------------------------------------------------------------
(* The scoring endpoints together with the details read *)

DetailsCards == {Knockout(CompetitorB)}

\* The breakdown attachment of a match that three KO declarations for
\* competitor A finalized.
PriorBreakdown(b) ==
    LET rec == [NewRecord(CompetitorA, CompetitorB) EXCEPT
                   !.judges = [j \in JudgeIds |-> Knockout(CompetitorA)]]
    IN AttachmentOf([rec EXCEPT !.finalized = TRUE,
                                !.result = calculateMatchResult(b, rec)])

\* The server starts with nothing stored for the match; the bracket host holds
\* either no attachment or the breakdown of an earlier finalization (the
\* in-memory store is empty again after every restart of the process, the
\* attachment stays with the host).
DetailsInit ==
    /\ build \in {"part_000", "README"}
    /\ pool \in BOOLEAN
    /\ store = NoRecord
    /\ req = [j \in JudgeIds |-> IdleReq]
    /\ resp = [j \in JudgeIds |-> NoResp]
    /\ reports = <<>>
    /\ opsStarted = 0
    /\ opsLimit = MaxOps
    /\ anyDelete = FALSE
    /\ anyFailure = FALSE
    /\ latest = [j \in JudgeIds |-> NoCard]
    /\ statusOut = NoStatus
    /\ reopen = "none"
    /\ accepted = <<>>
    /\ attachments \in {<<>>, <<PriorBreakdown(build)>>}
    /\ details = IdleDetails
    /\ twin = NoTwin
    /\ sheet = NoSheet
    /\ totals = NoTotals
    /\ calcIn = NoRecord
    /\ calcOut = NoResult

DetailsNext ==
    \/ \E j \in JudgeIds, card \in DetailsCards : Submit(j, card)
    \/ \E j \in JudgeIds : ReportFails(j)
    \/ \E j \in JudgeIds : ReportReturns(j)
    \/ \E j \in JudgeIds : SaveReturns(j)
    \/ \E j \in JudgeIds : AttachReturns(j)
    \/ \E j \in JudgeIds : Delete(j)
    \/ \E j \in JudgeIds : DeleteSaveReturns(j)
    \/ \E withTournament \in BOOLEAN : GetDetails(withTournament)
    \/ \E ok \in BOOLEAN : DetailsFetched(ok)
    \/ DetailsSaveReturns

DetailsSpec == DetailsInit /\ [][DetailsNext]_vars

-----------------------------------------------------------------------------
(* Requests one after the other: none arrives while another is handled *)

NoneInFlight == \A j \in JudgeIds : ~InFlight(j)

SerialNext ==
    \/ NoneInFlight /\ \E j \in JudgeIds, card \in SubmitCards : Submit(j, card)
    \/ \E j \in JudgeIds : ReportFails(j)
    \/ \E j \in JudgeIds : ReportReturns(j)
    \/ \E j \in JudgeIds : SaveReturns(j)
    \/ \E j \in JudgeIds : AttachReturns(j)
    \/ NoneInFlight /\ \E j \in JudgeIds : Delete(j)
    \/ \E j \in JudgeIds : DeleteSaveReturns(j)

SerialSpec == Init /\ [][SerialNext]_vars

-----------------------------------------------------------------------------
(* Malformed request bodies *)

\* A request body the handler receives that the judging form does not send: a
\* KO declaration that names no winner ({isKO: true, koWinnerId: null}).
MalformedCards == {Knockout(NoId)}

MalformedNext ==
    \/ \E j \in JudgeIds, card \in MalformedCards : Submit(j, card)
    \/ \E j \in JudgeIds : ReportFails(j)
    \/ \E j \in JudgeIds : ReportReturns(j)
    \/ \E j \in JudgeIds : SaveReturns(j)
    \/ \E j \in JudgeIds : AttachReturns(j)

MalformedSpec == Init /\ [][MalformedNext]_vars

-----------------------------------------------------------------------------
(* calculateMatchResult on its own: every record of three scorecards *)

\* The scorecards calculateMatchResult is applied to in CalcSpec: the point
\* splits of the judging examples and the extremes, KO declarations for either
\* competitor, for an id that is no competitor and with no winner named, an
\* empty scorecard, and scorecards that carry both a split and a KO winner.
CalcCards ==
    SubmitCards \cup
    {PointSplit(1, 4, 1), PointSplit(2, 2, 2), PointSplit(0, 0, 0), PointSplit(3, 5, 3),
     Knockout(CompetitorB), Knockout(NoId),
     [Knockout(NoId) EXCEPT !.isKO = FALSE],
     [PointSplit(3, 5, 3) EXCEPT !.isKO = TRUE, !.koWinnerId = CompetitorB],
     [PointSplit(0, 0, 0) EXCEPT !.koWinnerId = CompetitorA]}
    \cup {Knockout(w) : w \in OtherIds}

CalcRecords ==
    {[NewRecord(CompetitorA, CompetitorB) EXCEPT !.judges = js] :
        js \in [JudgeIds -> CalcCards]}

CalcInit ==
    /\ build \in Builds
    /\ pool = FALSE
    /\ store = NoRecord
    /\ req = [j \in JudgeIds |-> IdleReq]
    /\ resp = [j \in JudgeIds |-> NoResp]
    /\ reports = <<>>
    /\ opsStarted = 0
    /\ opsLimit = MaxOps
    /\ anyDelete = FALSE
    /\ anyFailure = FALSE
    /\ latest = [j \in JudgeIds |-> NoCard]
    /\ statusOut = NoStatus
    /\ reopen = "none"
    /\ accepted = <<>>
    /\ attachments = <<>>
    /\ details = IdleDetails
    /\ twin = NoTwin
    /\ sheet = NoSheet
    /\ totals = NoTotals
    /\ calcIn \in CalcRecords
    /\ calcOut = NoResult

\* "const result = calculateMatchResult(matchScores)"
Calculate ==
    /\ ~calcOut.present
    /\ calcOut' = calculateMatchResult(build, calcIn)
    /\ UNCHANGED <<build, pool, opsLimit, store, req, resp, reports, opsStarted, anyDelete,
                   anyFailure, latest, statusOut, reopen, accepted, attachments, details, twin,
                   sheet, totals, calcIn>>

CalcNext == Calculate

CalcSpec == CalcInit /\ [][CalcNext]_vars

-----------------------------------------------------------------------------
(* Claims about the submit handler, under Spec *)

SubmitSucceeded(j) == ~InFlight(j) /\ resp[j].kind = "submit" /\ resp[j].success

\* The first judge's scorecard was stored before the other two judges' submits
\* read the record: j's handler saw an empty record (judgeCount 1), the other
\* two saw at least one stored entry, and these three submits are all the
\* requests there were.
SecondAndThirdAfterFirst(j) ==
    /\ opsStarted = 3
    /\ \A k \in JudgeIds : SubmitSucceeded(k)
    /\ resp[j].judgeCount = 1
    /\ \A k \in JudgeIds \ {j} : resp[k].judgeCount >= 2

\* C1 (P5, finalize-once): with one scorecard stored, when the 2nd and 3rd
\* judges' submits run under any interleaving of their store reads, store
\* writes and report calls, exactly one of the two responses has
\* finalized:true and the upstream report is called exactly once.
C1_FinalizeOnce ==
    \A j \in JudgeIds :
        SecondAndThirdAfterFirst(j) =>
            /\ Cardinality({k \in JudgeIds \ {j} : resp[k].finalized}) = 1
            /\ Len(reports) = 1

\* C2: whatever the interleaving of submits to the match, reportToChallonge
\* is called at most once for it (no report call having failed, so that no
\* second call is a retry).
C2_ReportAtMostOnce == ~anyFailure => Len(reports) <= 1

\* C3: no vote is silently dropped: when two different judges' submits have
\* both returned success and no scorecard was deleted, the stored record holds
\* both judges' scorecards.
C3_NoVoteDropped ==
    \A j, k \in JudgeIds :
        (j # k /\ SubmitSucceeded(j) /\ SubmitSucceeded(k) /\ ~anyDelete) =>
            {j, k} \subseteq DOMAIN store.judges

\* C4: once judge_1, judge_2 and judge_3 have each submitted with success, no
\* scorecard was deleted and no report call failed, the match is finalized
\* with a result and that result was reported upstream. (The handlers are the
\* only activity: when no request is in flight nothing further happens, so
\* "eventually" is "by the time the three responses are sent".)
C4_ThreeSubmitsFinalize ==
    ((\A j \in JudgeIds : SubmitSucceeded(j)) /\ ~anyDelete /\ ~anyFailure) =>
        /\ store.finalized
        /\ store.result.present
        /\ \E i \in 1..Len(reports) : reports[i] = ReportCall(store.result)

\* C5 (P3, no premature finalize): a submit that leaves fewer than 3 judge
\* entries in the record computes no result, makes no report call and answers
\* finalized:false without a result, whatever the scorecards contain.
C5_NoPrematureFinalize ==
    \A j \in JudgeIds :
        /\ (req[j].kind = "submit" /\ req[j].judgeCount < JudgesRequired) =>
               /\ ~req[j].reported
               /\ ~req[j].result.present
               /\ req[j].pc = "save_pending"
        /\ (resp[j].kind = "submit" /\ resp[j].success /\ resp[j].judgeCount < JudgesRequired) =>
               /\ ~resp[j].finalized
               /\ ~resp[j].result.present
               /\ ~resp[j].reported

\* C5 witness: a submit has answered judgeCount 2, finalized:false while the
\* record holds two KO votes for the same competitor and nothing was reported.
C5_Witness ==
    \E j, k \in JudgeIds :
        /\ j # k
        /\ DOMAIN store.judges = {j, k}
        /\ store.judges[j] = Knockout(CompetitorA)
        /\ store.judges[k] = Knockout(CompetitorA)
        /\ SubmitSucceeded(k)
        /\ resp[k].judgeCount = 2
        /\ ~resp[k].finalized
        /\ ~store.finalized
        /\ reports = <<>>

-----------------------------------------------------------------------------
(* Claims about calculateMatchResult, under CalcSpec *)

\* The scorecards of the record that declare KO for competitor c.
KoDeclarationsFor(rec, c) ==
    {j \in DOMAIN rec.judges : rec.judges[j].isKO /\ rec.judges[j].koWinnerId = c}

KoNamed == {CompetitorA, CompetitorB} \cup OtherIds

\* C6 (P2, KO majority): for every set of 3 scorecards of which at least 2
\* declare KO for the same competitor, the result has winMethod 'ko', that
\* competitor as winner and koVotes equal to the number of scorecards that
\* declare KO for that competitor, whatever the remaining scorecard holds.
C6_KoMajority ==
    calcOut.present =>
        \A c \in KoNamed :
            Cardinality(KoDeclarationsFor(calcIn, c)) >= 2 =>
                /\ calcOut.winMethod = "ko"
                /\ calcOut.winnerId = c
                /\ calcOut.koVotes = Cardinality(KoDeclarationsFor(calcIn, c))

\* C6 witness: judge_1 and judge_2 declared KO for competitor B, judge_3 gave
\* every point to competitor A, and the result is a KO for B with 2 votes.
C6_Witness ==
    /\ calcOut.present
    /\ calcIn.judges["judge_1"] = Knockout(CompetitorB)
    /\ calcIn.judges["judge_2"] = Knockout(CompetitorB)
    /\ calcIn.judges["judge_3"] = PointSplit(3, 5, 3)
    /\ calcOut.winMethod = "ko"
    /\ calcOut.winnerId = CompetitorB
    /\ calcOut.koVotes = 2

\* The scorecards the judge client sends (handleSubmit): "scores: isKO ? null
\* : scores, isKO, koWinnerId: isKO ? (competitorAId or competitorBId) : null",
\* each slider share between 0 and its criterion's points (3, 5, 3).
ClientCard(card) ==
    IF card.isKO
    THEN card.scores = <<>> /\ card.koWinnerId \in {CompetitorA, CompetitorB}
    ELSE /\ card.koWinnerId = NoId
         /\ HasScores(card)
         /\ card.scores[1].aggression \in 0..3
         /\ card.scores[1].damage \in 0..5
         /\ card.scores[1].control \in 0..3

FromClients(rec) == \A j \in DOMAIN rec.judges : ClientCard(rec.judges[j])

\* C7: a KO result (of three scorecards as the judge clients send them) is
\* winner-takes-all: the winner's side (scoreA if the winner is competitor A,
\* else scoreB) is 33 and the other side is 0.
C7_KoWinnerTakesAll ==
    (calcOut.present /\ FromClients(calcIn) /\ calcOut.winMethod = "ko") =>
        IF calcOut.winnerId = calcIn.competitorAId
        THEN calcOut.scoreA = 33 /\ calcOut.scoreB = 0
        ELSE calcOut.scoreB = 33 /\ calcOut.scoreA = 0

\* C8: every result with winMethod 'points' (of three scorecards as the judge
\* clients send them) has scoreA + scoreB = 33.
C8_PointsSumToBudget ==
    (calcOut.present /\ FromClients(calcIn) /\ calcOut.winMethod = "points") =>
        calcOut.scoreA + calcOut.scoreB = 33

\* C9: in a result with winMethod 'points' (of three scorecards as the judge
\* clients send them) the named winner's score is strictly greater than the
\* other competitor's; no points result is a tie.
C9_PointsWinnerStrictlyAhead ==
    (calcOut.present /\ FromClients(calcIn) /\ calcOut.winMethod = "points") =>
        /\ calcOut.scoreA # calcOut.scoreB
        /\ calcOut.winnerId = calcIn.competitorAId => calcOut.scoreA > calcOut.scoreB
        /\ calcOut.winnerId = calcIn.competitorBId => calcOut.scoreB > calcOut.scoreA

\* C10: every computed result names a winner that is one of the record's two
\* competitor references.
C10_WinnerIsCompetitor ==
    calcOut.present =>
        calcOut.winnerId \in {calcIn.competitorAId, calcIn.competitorBId}

-----------------------------------------------------------------------------
(* Claims about finalized records, edits and reads, under Spec *)

\* C11: a submit received while the stored record is finalized is refused as
\* already finalized (HTTP 400, as the delete handler answers) and leaves the
\* stored scorecards as they were.
C11_SubmitAfterFinalizeRefused ==
    [][\A j \in JudgeIds, card \in SubmitCards :
          (store.finalized /\ Submit(j, card)) =>
              /\ resp'[j] = ErrorResp("submit", 400, FALSE)
              /\ store'.judges = store.judges]_vars

\* C12 (P6): once the stored record is finalized with a result, every later
\* step leaves it finalized and leaves its result as it is.
C12_FinalizedStaysFinalized ==
    [][(store.finalized /\ store.result.present) =>
          (store'.finalized /\ store'.result = store.result)]_vars

\* C13: a delete received while the stored record is finalized answers HTTP 400
\* 'Match already finalized' and leaves the record (scorecards, finalized flag,
\* result) unchanged.
C13_DeleteAfterFinalizeRefused ==
    [][\A j \in JudgeIds :
          (store.finalized /\ Delete(j)) =>
              /\ resp'[j] = ErrorResp("delete", 400, FALSE)
              /\ ~InFlight(j)'
              /\ store' = store]_vars

\* C13 witness: a judge with a stored scorecard was answered 400 to a delete
\* and the record is finalized with its result and that scorecard.
C13_Witness ==
    \E j \in JudgeIds :
        /\ resp[j] = ErrorResp("delete", 400, FALSE)
        /\ store.finalized
        /\ store.result.present
        /\ j \in DOMAIN store.judges

C14_ResultUsesLatestScorecard ==
    [][\A j \in JudgeIds, card \in SubmitCards :
          (Submit(j, card) /\ reports' # reports /\ ~anyDelete) =>
              LET ms == IF InMemory THEN store' ELSE req'[j].ms
              IN \A k \in DOMAIN ms.judges \ {j} :
                     (~InFlight(k) /\ latest[k] # NoCard) =>
                         ms.judges[k] = latest[k]]_vars

\* The part of C14 that is the resubmitting handler's own: the record it goes
\* on with holds the new scorecard in place of the old one and every other
\* entry as it read it, the judgeCount it answers is the count before the
\* request, and a result it computes is the result of the record with the new
\* scorecard alone in that judge's place.
ResubmitReplacesInHandler ==
    [][\A j \in JudgeIds, card \in SubmitCards :
          (j \in DOMAIN store.judges /\ ~store.finalized /\ Submit(j, card)) =>
              LET after == IF InMemory THEN store' ELSE req'[j].ms
                  count == IF req'[j].pc # "idle" THEN req'[j].judgeCount
                                                   ELSE resp'[j].judgeCount
                  replaced == [store EXCEPT !.judges = [store.judges EXCEPT ![j] = card]]
              IN /\ DOMAIN after.judges = DOMAIN store.judges
                 /\ after.judges[j] = card
                 /\ \A k \in DOMAIN store.judges \ {j} : after.judges[k] = store.judges[k]
                 /\ count = Cardinality(DOMAIN store.judges)
                 /\ reports' # reports =>
                        reports' = Append(reports,
                                          ReportCall(calculateMatchResult(build, replaced)))]_vars

\* Only judge j has sent requests to the match, and none of them is in flight.
OnlyActor(j) ==
    /\ ~InFlight(j)
    /\ \A k \in JudgeIds \ {j} : ~InFlight(k) /\ resp[k] = NoResp

\* C15: on a match with no other scorecards, after submit(j, s1); delete(j)
\* the record holds 0 scorecards and is not finalized, and after the resubmit
\* submit(j, s2) the record is the one submit(j, s2) alone leaves: only s2 is
\* stored and judgeCount reads 1.
C15_DeleteThenResubmit ==
    \A j \in JudgeIds :
        OnlyActor(j) =>
            /\ resp[j] = DeletedResp =>
                   /\ JudgeCount(store) = 0
                   /\ ~store.finalized
                   /\ ~store.result.present
            /\ SubmitSucceeded(j) =>
                   /\ latest[j] \in SubmitCards
                   /\ store = [NewRecord(CompetitorA, CompetitorB)
                                  EXCEPT !.judges = [k \in {j} |-> latest[j]]]
                   /\ resp[j] = WaitingResp(1)

\* C15 witness: three requests were made, all by one judge, the second a
\* delete answered with success (so the first was a submit), the third a
\* submit; the record holds that judge's scorecard alone.
C15_Witness ==
    \E j \in JudgeIds :
        /\ OnlyActor(j)
        /\ opsStarted = 3
        /\ anyDelete
        /\ resp[j] = WaitingResp(1)
        /\ DOMAIN store.judges = {j}
        /\ store.judges[j] = latest[j]

\* C17: a malformed submission (here a KO declaration with no named winner)
\* is rejected with a validation error before the store is touched: the
\* record is unchanged, no write is started and no report call is made.
C17_MalformedRejected ==
    [][\A j \in JudgeIds, card \in MalformedCards :
          Submit(j, card) =>
              /\ resp'[j] = ErrorResp("submit", 400, FALSE)
              /\ ~InFlight(j)'
              /\ store' = store
              /\ reports' = reports]_vars

\* C18: when the upstream report call of a finalizing submit fails (and it is
\* the only report call made for the match), the record is not marked
\* finalized and carries no result, and the handler that made the call
\* answered its caller with the error (HTTP 500).
C18_FailedReportNotFinalized ==
    (anyFailure /\ Len(reports) = 1) =>
        /\ ~store.finalized
        /\ ~store.result.present
        /\ \A j \in JudgeIds :
               (~InFlight(j) /\ resp[j].kind = "submit" /\ resp[j].reported) =>
                   resp[j] = ErrorResp("submit", 500, TRUE)

\* C18 witness: three scorecards are stored, the one report call failed, its
\* caller was answered 500 and the record is not finalized.
C18_Witness ==
    \E j \in JudgeIds :
        /\ anyFailure
        /\ Len(reports) = 1
        /\ resp[j] = ErrorResp("submit", 500, TRUE)
        /\ JudgeCount(store) = JudgesRequired
        /\ ~store.finalized
        /\ \A k \in JudgeIds : ~InFlight(k)

\* C19: the status read changes neither the stored record nor any request in
\* flight and makes no report call; it answers the number of stored judge
\* entries, the finalized flag and the stored result, and for a match with
\* no record judgeCount 0, finalized false and no result.
C19_StatusReadOnly ==
    [][GetStatus =>
          /\ store' = store
          /\ reports' = reports
          /\ req' = req
          /\ statusOut'.present
          /\ statusOut'.judgeCount = Cardinality(DOMAIN store.judges)
          /\ statusOut'.finalized = store.finalized
          /\ statusOut'.result = store.result
          /\ ~store.exists =>
                 statusOut' = [present |-> TRUE, judgeCount |-> 0,
                               finalized |-> FALSE, result |-> NoResult]]_vars

\* C19 witness: a status read answered 3 entries, not finalized and no result
\* for a record whose only report call had failed; the record is still so and
\* no further report call was made.
C19_Witness ==
    /\ statusOut = [present |-> TRUE, judgeCount |-> JudgesRequired,
                    finalized |-> FALSE, result |-> NoResult]
    /\ anyFailure
    /\ Len(reports) = 1
    /\ JudgeCount(store) = JudgesRequired
    /\ ~store.finalized

\* C20: after the reopen action has been performed for a finalized match, the
\* match's scoring record is no longer finalized (so that the judges can
\* submit again and a third scorecard finalizes and reports anew).
C20_ReopenClearsFinalized ==
    [][(store.finalized /\ Reopen(TRUE)) => ~store'.finalized]_vars

\* A's share on a scorecard as the claim counts it: the sum of the three
\* criterion shares of a scorecard that carries a split, nothing otherwise.
ShareA(card) ==
    IF card.scores = <<>> THEN 0
    ELSE card.scores[1].aggression + card.scores[1].damage + card.scores[1].control

SplitCards(rec) == {j \in DOMAIN rec.judges : rec.judges[j].scores # <<>>}

NoKoMajority(rec) ==
    \A c \in KoNamed : Cardinality(KoDeclarationsFor(rec, c)) < 2

-----------------------------------------------------------------------------
(* Claims about the shape of the stored record *)

\* C22: every reachable record of a match has one of three shapes: Open (no
\* scorecard, not finalized, no result), Collecting (one or two scorecards, not
\* finalized, no result) or Finalized (exactly three scorecards, finalized,
\* a result); a record never holds more than three judge entries.  Stated of
\* the record between requests.
C22_RecordShape ==
    NoneInFlight =>
        /\ JudgeCount(store) <= JudgesRequired
        /\ \/ JudgeCount(store) = 0 /\ ~store.finalized /\ ~store.result.present
           \/ JudgeCount(store) \in 1..(JudgesRequired - 1)
                /\ ~store.finalized /\ ~store.result.present
           \/ JudgeCount(store) = JudgesRequired
                /\ store.finalized /\ store.result.present

-----------------------------------------------------------------------------
(* Claims about a failing report or store *)

\* C24: when the report of a finalizing submit fails, the stored record holds
\* all three scorecards and is not finalized once the handler has answered
\* Stated of the first report call of a match in which no scorecard was deleted
\* and no other request is in flight.
C24_FailedReportKeepsScorecards ==
    [][\A j \in JudgeIds :
          (/\ ReportFails(j)
           /\ Len(reports) = 1
           /\ ~anyDelete
           /\ \A k \in JudgeIds \ {j} : ~InFlight(k)) =>
              /\ JudgeCount(store') = JudgesRequired
              /\ ~store'.finalized]_vars

\* C25: finalization and reporting succeed or fail together: when the store
\* write of a finalizing submit fails, the record is not finalized and the
\* bracket host has received no result, so after the submit has returned the
\* host never holds a result of a record that is not finalized. Stated of the
\* first report call of a match, with no other request in flight.
C25_StoreFailureReportsNothing ==
    [][\A j \in JudgeIds :
          (/\ SaveFails(j)
           /\ req[j].pc = "save_final"
           /\ Len(reports) = 1
           /\ \A k \in JudgeIds \ {j} : ~InFlight(k)) =>
              /\ ~store'.finalized
              /\ accepted' = <<>>]_vars

\* C30: when saving the breakdown attachment fails after the report and the
\* store write of a finalizing submit succeeded, the submit still answers 200
\* with finalized true and the result, the record stays finalized, and the
\* failure is not passed on to the client.
C30_AttachmentFailureSwallowed ==
    [][\A j \in JudgeIds :
          AttachFails(j) =>
              /\ resp'[j].status = 200
              /\ resp'[j].success
              /\ resp'[j].finalized
              /\ resp'[j].result.present
              /\ resp'[j].result = req[j].result
              /\ store.finalized => store'.finalized]_vars

\* C30 witness: on the pool judge_3's finalizing submit was reported, stored
\* and answered with finalized true, and no attachment reached the host.
C30_Witness ==
    /\ build = "part_000"
    /\ pool
    /\ NoneInFlight
    /\ resp["judge_3"].finalized
    /\ resp["judge_3"].result.present
    /\ Len(accepted) = 1
    /\ store.finalized
    /\ attachments = <<>>

\* C26: in every finalized record the stored result is the result of the
\* calculation on the scorecards the record holds. Stated of the record
\* between requests.
C26_StoredResultMatchesScorecards ==
    (NoneInFlight /\ store.finalized) => store.result = calculateMatchResult(build, store)

-----------------------------------------------------------------------------
(* Claims about requests handled one after the other, under SerialSpec *)

\* The record of the match with, for every judge, the scorecard of that judge's
\* last submit that was answered with success, judge j's being card.
LatestWith(j, card) ==
    [NewRecord(CompetitorA, CompetitorB) EXCEPT !.judges = [latest EXCEPT ![j] = card]]

\* C28: the result of a match depends only on the last scorecard of each of
\* the three judges, not on the order in which they arrived: when requests
\* are handled one after the other and no report has failed, the result
\* computed by the finalizing submit is the result of the calculation on the
\* three judges' last scorecards, whichever judge came first, second or last.
C28_ResultIndependentOfOrder ==
    [][\A j \in JudgeIds :
          (req[j].pc = "idle" /\ req'[j].pc = "report" /\ ~anyFailure) =>
              /\ \A k \in JudgeIds \ {j} : latest[k] # NoCard
              /\ req'[j].result =
                     calculateMatchResult(build, LatestWith(j, req'[j].card))]_vars

\* C28 witness: judge_3 submitted first, judge_1 second and judge_2 last (the
\* judgeCount each was answered with), and the stored result is the points
\* result 14 - 8 of their three scorecards (two splits 7 - 4 and a KO
\* declaration without a majority).
C28_Witness ==
    /\ NoneInFlight
    /\ resp["judge_3"] = WaitingResp(1)
    /\ resp["judge_1"] = WaitingResp(2)
    /\ resp["judge_2"].finalized
    /\ resp["judge_2"].judgeCount = 3
    /\ latest["judge_1"] = PointSplit(2, 3, 2)
    /\ latest["judge_2"] = Knockout(CompetitorA)
    /\ latest["judge_3"] = PointSplit(2, 3, 2)
    /\ store.finalized
    /\ store.result.winMethod = "points"
    /\ store.result.winnerId = CompetitorA
    /\ store.result.scoreA = 14
    /\ store.result.scoreB = 8

-----------------------------------------------------------------------------
(* Claims about the two storage variants, under TwinSpec *)

\* C27: for every sequence of submit, delete and status requests handled one
\* after the other (runs with a failing report included), the in-memory
\* variant and the database variant give the same response and hold the same
\* record (competitor references, scorecards, finalized flag, result) after
\* each request.
C27_VariantsAgree ==
    twin.present => (twin.mem.out = twin.db.out /\ twin.mem.store = twin.db.store)

-----------------------------------------------------------------------------
(* Claims about the details read, under DetailsSpec *)

DetailsStep ==
    \/ \E withTournament \in BOOLEAN : GetDetails(withTournament)
    \/ \E ok \in BOOLEAN : DetailsFetched(ok)
    \/ DetailsSaveReturns

\* C29: the details read writes to the store only when the match has no
\* stored record or a record without scorecards and a judge-score breakdown
\* attachment is found with the bracket host, and what it stores then is that
\* breakdown as a finalized record; it never changes a record that holds at
\* least one scorecard and never makes a report call.
C29_DetailsWritesOnlyEmptyRecord ==
    [][DetailsStep =>
          /\ reports' = reports
          /\ store' # store =>
                /\ ~store.exists \/ JudgeCount(store) = 0
                /\ Len(attachments) > 0
                /\ store' = CachedRecord(attachments[1])]_vars

-----------------------------------------------------------------------------
(* Claims about one scorecard's totals, under TotalsSpec *)

\* C21 (P1): for every point-split scorecard competitor B's total is the
\* event's configured point budget (the sum of its criteria points) minus
\* competitor A's total, so the two totals add up to that budget, in the
\* totals the judge client shows and in the totals the server adds up.
C21_TotalsSumToBudget ==
    totals.present =>
        /\ totals.clientA + totals.clientB = totalMaxPoints(sheet.criteria)
        /\ totals.serverA + totals.serverB = totalMaxPoints(sheet.criteria)

=============================================================================
